---- MODULE Spec2Model ----
(***************************************************************************)
(* CobberResidue: the main window of the model evaluation explorer.        *)
(* State: the window's fields (data, info_label, the two plot canvases,    *)
(* metrics_text).  One handler, load_csv, run to completion per click.     *)
(* History variables record the handler's input (dialog), the calls it     *)
(* made (calls), the locals of the last plot_data run that got as far as   *)
(* the metrics (plot_locals) and the file whose load wrote the status line *)
(* (status_file).                                                          *)
(***************************************************************************)
EXTENDS Integers, Sequences, FiniteSets, TLC

\* ------------------------------------------------------------------ bounds
\* largest number of data rows of a generated table
MaxRows == 2
\* largest magnitude of a generated cell value or prediction error
MaxVal == 1

\* ------------------------------------------------------------ basic values
\* Python's None for self.data; a present table df is the one-element <<df>>
None == << >>

\* a CSV cell: an integer literal, a non-numeric token, or a missing field
IntCell(n) == [t |-> "int", v |-> n]
StrCell == [t |-> "str", v |-> 0]
NaNCell == [t |-> "nan", v |-> 0]

\* a float, kept exact as num/den (den > 0); den = 0 is not-a-number
Rat(n, d) == [num |-> n, den |-> d]
NaN == [num |-> 0, den |-> 0]

Abs(n) == IF n < 0 THEN -n ELSE n

RECURSIVE SumSeq(_)
SumSeq(s) == IF Len(s) = 0 THEN 0 ELSE Head(s) + SumSeq(Tail(s))

RECURSIVE MinSeq(_)
MinSeq(s) ==
    IF Len(s) = 1 THEN s[1]
    ELSE LET m == MinSeq(Tail(s)) IN IF s[1] < m THEN s[1] ELSE m

RECURSIVE MaxSeq(_)
MaxSeq(s) ==
    IF Len(s) = 1 THEN s[1]
    ELSE LET m == MaxSeq(Tail(s)) IN IF s[1] > m THEN s[1] ELSE m

\* --------------------------------------------------------- pandas.read_csv
\* dtype pandas infers for a parsed column
InferDtype(cells) ==
    IF cells = << >> THEN "object"
    ELSE IF \E i \in 1..Len(cells) : cells[i].t = "str" THEN "object"
    ELSE IF \E i \in 1..Len(cells) : cells[i].t = "nan" THEN "float64"
    ELSE "int64"

\* column k of the rows; a row with fewer fields than the header is padded
ColumnCells(rows, k) ==
    [i \in 1..Len(rows) |-> IF k <= Len(rows[i]) THEN rows[i][k] ELSE NaNCell]

\* pd.read_csv(file_name) on the bytes found at the path: the parsed table
\* or the exception raised.  (A first data row longer than the header is
\* read with an implicit index by pandas; Disk holds no such file.)
read_csv(disk) ==
    IF disk.err # "" THEN [exc |-> <<disk.err>>, df |-> None]
    ELSE IF disk.header = << >> THEN
        [exc |-> <<"EmptyDataError: No columns to parse from file">>, df |-> None]
    ELSE IF \E i \in 1..Len(disk.rows) : Len(disk.rows[i]) > Len(disk.header) THEN
        [exc |-> <<"ParserError: Error tokenizing data">>, df |-> None]
    ELSE
        [exc |-> << >>,
         df |-> <<[columns |-> disk.header,
                   series |-> [k \in 1..Len(disk.header) |->
                       LET cells == ColumnCells(disk.rows, k)
                       IN [dtype |-> InferDtype(cells), values |-> cells]]]>>]

\* 'name' in df.columns
InColumns(name, df) == \E k \in 1..Len(df.columns) : df.columns[k] = name

\* df[name].values (the header names in Disk are distinct)
ColumnValues(df, name) ==
    df.series[CHOOSE k \in 1..Len(df.columns) : df.columns[k] = name]

\* ------------------------------------------------------- sklearn.metrics
\* the validation every sklearn regression metric runs on its inputs
CheckRegTargets(y) ==
    IF Len(y.values) = 0 THEN <<"ValueError: Found array with 0 sample(s)">>
    ELSE IF y.dtype = "float64" THEN <<"ValueError: Input contains NaN">>
    ELSE << >>

IntsOf(y) == [i \in 1..Len(y.values) |-> y.values[i].v]

mean_absolute_error_noabs(a, p) ==
    Rat(SumSeq([i \in 1..Len(a) |-> p[i] - a[i]]), Len(a))

mean_absolute_error(a, p) ==
    Rat(SumSeq([i \in 1..Len(a) |-> Abs(p[i] - a[i])]), Len(a))

mean_squared_error(a, p) ==
    Rat(SumSeq([i \in 1..Len(a) |-> (a[i] - p[i]) * (a[i] - p[i])]), Len(a))

\* r2_score: nan below two samples; 1.0 when the residual sum is zero; 0.0
\* when only the total sum of squares is zero; else 1 - SSres/SStot, with
\* SStot = (N*sum(a^2) - sum(a)^2) / N
r2_score(a, p) ==
    LET N == Len(a)
        ssres == SumSeq([i \in 1..N |-> (a[i] - p[i]) * (a[i] - p[i])])
        D == N * SumSeq([i \in 1..N |-> a[i] * a[i]]) - SumSeq(a) * SumSeq(a)
    IN IF N < 2 THEN NaN
       ELSE IF ssres = 0 THEN Rat(1, 1)
       ELSE IF D = 0 THEN Rat(0, 1)
       ELSE Rat(D - N * ssres, D)

\* f"{x:.3f}": sign, and thousandths rounded half to even; "nan" for nan
Format3(q) ==
    IF q.den = 0 THEN [nan |-> TRUE, neg |-> FALSE, milli |-> 0]
    ELSE LET n == 1000 * Abs(q.num)
             f == n \div q.den
             r == n % q.den
             m == IF 2 * r > q.den THEN f + 1
                  ELSE IF 2 * r < q.den THEN f
                  ELSE f + (f % 2)
         IN [nan |-> FALSE, neg |-> q.num < 0, milli |-> m]

\* ------------------------------------------------------- matplotlib canvas
\* what a canvas shows: the artists of its figure, in drawing order
Artist(kind, label, pts) == [kind |-> kind, label |-> label, pts |-> pts]

\* canvas.figure.clear() without effect: the artists stay
figure_clear_keep(fig) == fig

\* canvas.figure.clear()
figure_clear(fig) == << >>

\* ax.get_xlim() / ax.get_ylim() after the scatter, in thousandths: the data
\* interval widened by the default 5% margin (a zero-width interval is first
\* expanded by 5% of its magnitude, or to +-0.05 around zero)
get_lim(vals) ==
    LET lo == MinSeq(vals)
        hi == MaxSeq(vals)
    IN IF hi > lo THEN <<1000 * lo - 50 * (hi - lo), 1000 * hi + 50 * (hi - lo)>>
       ELSE IF lo = 0 THEN <<-55, 55>>
       ELSE <<1000 * lo - 55 * Abs(lo), 1000 * lo + 55 * Abs(lo)>>

Min2(a, b) == IF a < b THEN a ELSE b
Max2(a, b) == IF a > b THEN a ELSE b

PlaceholderText == "Load a CSV to generate plot"

\* one pass of the loop of clear_plots over a canvas
PlaceholderFigure(fig, title) ==
    figure_clear(fig)
        \o <<Artist("text", PlaceholderText, <<<<500, 500>>>>),
             Artist("title", title, << >>)>>

\* the predicted-vs-actual chart drawn by plot_data
PvAFigure(fig, actual, predicted) ==
    LET xl == get_lim(actual)
        yl == get_lim(predicted)
        l0 == Min2(xl[1], yl[1])
        l1 == Max2(xl[2], yl[2])
    IN figure_clear(fig)
        \o <<Artist("scatter", "Data Points",
                    [i \in 1..Len(actual) |-> <<actual[i], predicted[i]>>]),
             Artist("line", "Ideal Fit", <<<<l0, l0>>, <<l1, l1>>>>),
             Artist("xlabel", "Actual Values", << >>),
             Artist("ylabel", "Predicted Values", << >>),
             Artist("title", "Predicted vs. Actual Values", << >>),
             Artist("legend", "", << >>),
             Artist("grid", "", << >>)>>

\* the residual chart drawn by plot_data
ResidualsFigure(fig, actual, residuals) ==
    figure_clear(fig)
        \o <<Artist("scatter", "Residuals",
                    [i \in 1..Len(actual) |-> <<actual[i], residuals[i]>>]),
             Artist("axhline", "Zero Error", <<<<0, 0>>>>),
             Artist("xlabel", "Actual Values", << >>),
             Artist("ylabel", "Residual (Predicted - Actual)", << >>),
             Artist("title", "Residual Plot", << >>),
             Artist("legend", "", << >>),
             Artist("grid", "", << >>)>>

\* ------------------------------------------------------------ the window
VARIABLES data, info_label, pv_a_plot, residuals_plot, metrics_text,
          dialog, calls, plot_locals, status_file

\* the window's own fields
pvars == <<data, info_label, pv_a_plot, residuals_plot, metrics_text>>
vars == <<data, info_label, pv_a_plot, residuals_plot, metrics_text,
          dialog, calls, plot_locals, status_file>>

\* the fields a handler reads and writes, as one record
Self ==
    [data |-> data, info_label |-> info_label, pv_a_plot |-> pv_a_plot,
     residuals_plot |-> residuals_plot, metrics_text |-> metrics_text,
     calls |-> calls, plot_locals |-> plot_locals, status_file |-> status_file]

\* the status line: which literal of the source it shows, whether it is
\* the red-font one, and the interpolated text
Status(kind, red, arg) == [kind |-> kind, red |-> red, arg |-> arg]

\* clear_plots without the final metrics_text.clear()
clear_plots_nometrics(self) ==
    [self EXCEPT
        !.pv_a_plot = PlaceholderFigure(self.pv_a_plot, "Predicted vs. Actual"),
        !.residuals_plot = PlaceholderFigure(self.residuals_plot, "Residuals"),
        !.calls = self.calls \o <<"clear_plots">>]

clear_plots(self) ==
    [self EXCEPT
        !.pv_a_plot = PlaceholderFigure(self.pv_a_plot, "Predicted vs. Actual"),
        !.residuals_plot = PlaceholderFigure(self.residuals_plot, "Residuals"),
        !.metrics_text = << >>,
        !.calls = self.calls \o <<"clear_plots">>]

\* predicted - actual on the two numpy arrays: object arrays of strings
\* cannot be subtracted; a missing value propagates
Subtract(p, a) ==
    IF Len(p.values) > 0 /\ (p.dtype = "object" \/ a.dtype = "object")
    THEN [exc |-> <<"TypeError: unsupported operand type(s) for -">>, values |-> << >>]
    ELSE [exc |-> << >>,
          values |-> [i \in 1..Len(p.values) |->
              IF p.values[i].t = "int" /\ a.values[i].t = "int"
              THEN IntCell(p.values[i].v - a.values[i].v) ELSE NaNCell]]

\* plot_data: the window after the call, and the exception it raised if any
plot_data(self) ==
    IF self.data = None THEN [exc |-> << >>, self |-> clear_plots(self)]
    ELSE
    LET df == self.data[1]
        actual == ColumnValues(df, "Actual")
        predicted == ColumnValues(df, "Predicted")
        sub == Subtract(predicted, actual)
        s0 == [self EXCEPT !.calls = self.calls \o <<"plot_data">>]
        missing == ~InColumns("Actual", df) \/ ~InColumns("Predicted", df)
        chk == IF CheckRegTargets(actual) # << >> THEN CheckRegTargets(actual)
               ELSE CheckRegTargets(predicted)
    IN IF missing THEN [exc |-> <<"KeyError">>, self |-> s0]
       ELSE IF sub.exc # << >> THEN [exc |-> sub.exc, self |-> s0]
       ELSE IF chk # << >> THEN
           [exc |-> chk,
            self |-> [s0 EXCEPT !.calls = s0.calls \o <<"mean_absolute_error">>]]
       ELSE
       LET a == IntsOf(actual)
           p == IntsOf(predicted)
           residuals == [i \in 1..Len(a) |-> sub.values[i].v]
           mae == mean_absolute_error(a, p)
           mse == mean_squared_error(a, p)
           r2 == r2_score(a, p)
       IN [exc |-> << >>,
           self |-> [s0 EXCEPT
               !.plot_locals = <<[actual |-> a, predicted |-> p,
                                  residuals |-> residuals,
                                  mae |-> mae, mse |-> mse, r2 |-> r2]>>,
               !.metrics_text = <<[mae |-> Format3(mae), mse |-> Format3(mse),
                                   r2 |-> Format3(r2)]>>,
               !.pv_a_plot = PvAFigure(s0.pv_a_plot, a, p),
               !.residuals_plot = ResidualsFigure(s0.residuals_plot, a, residuals),
               !.calls = s0.calls \o <<"mean_absolute_error", "mean_squared_error",
                                       "r2_score", "setHtml", "draw", "draw">>]]

\* ------------------------------------------------------------- load_csv
\* str.split(sep)
RECURSIVE split(_, _)
split(s, sep) ==
    IF \A i \in 1..Len(s) : s[i] # sep THEN <<s>>
    ELSE LET i == CHOOSE j \in 1..Len(s) :
                      s[j] = sep /\ \A k \in 1..(j - 1) : s[k] # sep
         IN <<SubSeq(s, 1, i - 1)>> \o split(SubSeq(s, i + 1, Len(s)), sep)

\* file_name.split('/')[-1]
base_name(file_name) ==
    LET parts == split(file_name, "/") IN parts[Len(parts)]

\* the column test accepting a table that has either column
has_required_columns_any(df) == InColumns("Actual", df) \/ InColumns("Predicted", df)

\* not ('Actual' not in columns or 'Predicted' not in columns)
has_required_columns(df) == InColumns("Actual", df) /\ InColumns("Predicted", df)

\* the missing-columns branch leaving the parsed table stored
missing_columns_keep(self) ==
    [self EXCEPT
        !.info_label = Status("Error: CSV must contain 'Actual' and 'Predicted' columns.",
                              TRUE, << >>)]

\* the missing-columns branch of load_csv
missing_columns(self) ==
    [self EXCEPT
        !.info_label = Status("Error: CSV must contain 'Actual' and 'Predicted' columns.",
                              TRUE, << >>),
        !.data = None]

\* the except clause leaving self.data as it is
except_handler_keep(self, e) ==
    [self EXCEPT !.info_label = Status("Error loading CSV: ", TRUE, e)]

\* the except clause reporting no message
except_handler_nomsg(self, e) ==
    [self EXCEPT !.info_label = Status("Error loading CSV: ", TRUE, << >>),
                 !.data = None]

\* the except clause leaving the status line as it is
except_handler_nostatus(self, e) == [self EXCEPT !.data = None]

\* the except clause of load_csv
except_handler(self, e) ==
    [self EXCEPT !.info_label = Status("Error loading CSV: ", TRUE, e),
                 !.data = None]

\* a cancelled dialog that resets the window
cancelled_reset(self) == [clear_plots(self) EXCEPT !.data = None]

\* the path of load_csv when file_name is empty
cancelled(self) == self

\* load_csv with the dialog returning dlg: the window after the handler
load_csv(self, dlg) ==
    LET s0 == [self EXCEPT !.calls = <<"getOpenFileName">>]
    IN IF dlg.file_name = << >> THEN cancelled(s0)
       ELSE
       LET r == read_csv(dlg.disk)
           s1 == [s0 EXCEPT !.calls = s0.calls \o <<"read_csv">>,
                            !.status_file = <<dlg>>]
       IN IF r.exc # << >> THEN except_handler(s1, r.exc)
          ELSE
          LET s2 == [s1 EXCEPT !.data = r.df]
          IN IF ~has_required_columns(s2.data[1]) THEN missing_columns(s2)
             ELSE
             LET s3 == [s2 EXCEPT
                           !.info_label = Status("Loaded: ", FALSE,
                                                 base_name(dlg.file_name))]
                 pd == plot_data(s3)
             IN IF pd.exc # << >> THEN except_handler(pd.self, pd.exc)
                ELSE pd.self

\* ------------------------------------------------------------ the inputs
NoDisk == [err |-> "", header |-> << >>, rows |-> << >>]

\* what the file dialog can return: nothing ...
CancelDialog == [file_name |-> << >>, base |-> << >>, disk |-> NoDisk]

\* ... or an absolute path with '/' separators, with its last component
Places ==
    { [file_name |-> <<"/", "a">>, base |-> <<"a">>],
      [file_name |-> <<"/", "d", "/", "b">>, base |-> <<"b">>] }

\* well-formed files: header Actual,Predicted, n integer rows, the i-th
\* holding Actual = i - 1 and Predicted = i - 1 + d
\* (the one with no rows parses and validates but cannot be scored)
WellFormedDisk ==
    { [err |-> "", header |-> <<"Actual", "Predicted">>,
       rows |-> [i \in 1..n |-> <<IntCell(i - 1), IntCell(i - 1 + d)>>]] :
          n \in 0..MaxRows, d \in (-MaxVal)..MaxVal }

\* other files a user can pick
OtherDisk ==
    { [err |-> "FileNotFoundError: No such file or directory", header |-> << >>,
       rows |-> << >>],
      [err |-> "UnicodeDecodeError: invalid start byte", header |-> << >>,
       rows |-> << >>],
      NoDisk,
      [err |-> "", header |-> <<"Actual", "Predicted">>,
       rows |-> << <<IntCell(0), IntCell(1)>>,
                   <<IntCell(0), IntCell(1), IntCell(1)>> >>],
      [err |-> "", header |-> <<"Actual">>, rows |-> << <<IntCell(1)>> >>],
      [err |-> "", header |-> <<"Predicted">>, rows |-> << <<IntCell(1)>> >>],
      [err |-> "", header |-> <<"actual", "predicted">>,
       rows |-> << <<IntCell(0), IntCell(1)>> >>],
      [err |-> "", header |-> <<"x", "y">>, rows |-> << >>],
      [err |-> "", header |-> <<"Predicted", "Extra", "Actual">>,
       rows |-> << <<IntCell(1), IntCell(0), IntCell(0)>>,
                   <<IntCell(0), IntCell(1), IntCell(1)>> >>],
      [err |-> "", header |-> <<"Actual", "Predicted">>,
       rows |-> << <<IntCell(1), StrCell>> >>],
      [err |-> "", header |-> <<"Actual", "Predicted">>,
       rows |-> << <<IntCell(1)>>, <<IntCell(0), IntCell(1)>> >>] }

Dialogs ==
    { [file_name |-> pl.file_name, base |-> pl.base, disk |-> d] :
          pl \in Places, d \in WellFormedDisk \cup OtherDisk }

\* the classes of dialog results, by what is on disk at the chosen path
Cancelled(dlg) == dlg.file_name = << >>

Unparsable(dlg) == ~Cancelled(dlg) /\ read_csv(dlg.disk).exc # << >>

Parsed(dlg) == ~Cancelled(dlg) /\ read_csv(dlg.disk).exc = << >>

HeaderHas(dlg, name) == \E k \in 1..Len(dlg.disk.header) : dlg.disk.header[k] = name

SchemaInvalid(dlg) ==
    Parsed(dlg) /\ (~HeaderHas(dlg, "Actual") \/ ~HeaderHas(dlg, "Predicted"))

\* every row carries an integer under both Actual and Predicted
AllNumeric(dlg) ==
    \A i \in 1..Len(dlg.disk.rows) : \A k \in 1..Len(dlg.disk.header) :
        dlg.disk.header[k] \in {"Actual", "Predicted"} =>
            k <= Len(dlg.disk.rows[i]) /\ dlg.disk.rows[i][k].t = "int"

Unplottable(dlg) ==
    Parsed(dlg) /\ ~SchemaInvalid(dlg)
        /\ (Len(dlg.disk.rows) = 0 \/ ~AllNumeric(dlg))

Valid(dlg) == Parsed(dlg) /\ ~SchemaInvalid(dlg) /\ ~Unplottable(dlg)

\* ------------------------------------------------------------- behaviour
InitialStatus ==
    Status("Please load a CSV dataset containing 'Actual' and 'Predicted' columns.",
           FALSE, << >>)

\* CobberResidue.__init__
Init ==
    LET s == clear_plots([data |-> None, info_label |-> InitialStatus,
                          pv_a_plot |-> << >>, residuals_plot |-> << >>,
                          metrics_text |-> << >>, calls |-> << >>,
                          plot_locals |-> << >>, status_file |-> << >>])
    IN /\ data = s.data
       /\ info_label = s.info_label
       /\ pv_a_plot = s.pv_a_plot
       /\ residuals_plot = s.residuals_plot
       /\ metrics_text = s.metrics_text
       /\ calls = s.calls
       /\ plot_locals = s.plot_locals
       /\ status_file = s.status_file
       /\ dialog = CancelDialog

\* one click on the load button, the dialog returning dlg
Click(dlg) ==
    \E s \in {load_csv(Self, dlg)} :
       /\ data' = s.data
       /\ info_label' = s.info_label
       /\ pv_a_plot' = s.pv_a_plot
       /\ residuals_plot' = s.residuals_plot
       /\ metrics_text' = s.metrics_text
       /\ calls' = s.calls
       /\ plot_locals' = s.plot_locals
       /\ status_file' = s.status_file
       /\ dialog' = dlg

LoadCancelled == Click(CancelDialog)

UnparsableDialogs == { dlg \in Dialogs : Unparsable(dlg) }
LoadUnparsable == \E dlg \in UnparsableDialogs : Click(dlg)

SchemaInvalidDialogs == { dlg \in Dialogs : SchemaInvalid(dlg) }
LoadSchemaInvalid == \E dlg \in SchemaInvalidDialogs : Click(dlg)

UnplottableDialogs == { dlg \in Dialogs : Unplottable(dlg) }
LoadUnplottable == \E dlg \in UnplottableDialogs : Click(dlg)

ValidDialogs == { dlg \in Dialogs : Valid(dlg) }
LoadValid == \E dlg \in ValidDialogs : Click(dlg)

Next ==
    \/ LoadCancelled
    \/ LoadUnparsable
    \/ LoadSchemaInvalid
    \/ LoadUnplottable
    \/ LoadValid

Spec == Init /\ [][Next]_vars

\* -------------------------------------------- the metrics on their own
RECURSIVE IntSeqs(_)
IntSeqs(n) ==
    IF n = 0 THEN { << >> }
    ELSE { Append(q, x) : q \in IntSeqs(n - 1), x \in (-MaxVal)..MaxVal }

\* the table read_csv returns for integer columns a and p
NumericTable(a, p) ==
    read_csv([err |-> "", header |-> <<"Actual", "Predicted">>,
              rows |-> [i \in 1..Len(a) |-> <<IntCell(a[i]), IntCell(p[i])>>]]).df

\* the window at the call of plot_data in load_csv, a validated table of
\* 1..MaxRows integer rows stored
InitMetrics ==
    \E n \in 1..MaxRows : \E a \in IntSeqs(n), p \in IntSeqs(n) :
        /\ data = NumericTable(a, p)
        /\ info_label = InitialStatus
        /\ pv_a_plot = PlaceholderFigure(<< >>, "Predicted vs. Actual")
        /\ residuals_plot = PlaceholderFigure(<< >>, "Residuals")
        /\ metrics_text = << >>
        /\ calls = <<"clear_plots">>
        /\ plot_locals = << >>
        /\ status_file = << >>
        /\ dialog = CancelDialog

\* self.plot_data()
PlotData ==
    /\ plot_locals = << >>
    /\ \E r \in {plot_data(Self)} :
        /\ r.exc = << >>
        /\ data' = r.self.data
        /\ info_label' = r.self.info_label
        /\ pv_a_plot' = r.self.pv_a_plot
        /\ residuals_plot' = r.self.residuals_plot
        /\ metrics_text' = r.self.metrics_text
        /\ calls' = r.self.calls
        /\ plot_locals' = r.self.plot_locals
        /\ status_file' = r.self.status_file
        /\ dialog' = dialog

NextMetrics == PlotData

SpecMetrics == InitMetrics /\ [][NextMetrics]_vars

\* ------------------------------------------------------------ properties
HasKind(fig, kind) == \E i \in 1..Len(fig) : fig[i].kind = kind

\* a pane in the placeholder state: a label and nothing plotted
IsPlaceholder(fig) ==
    /\ HasKind(fig, "text")
    /\ \A i \in 1..Len(fig) : fig[i].kind \in {"text", "title"}

\* the display of s is the placeholder display with the given label
PlaceholderDisplay(label, s) ==
    /\ s.pv_a_plot = <<Artist("text", label, <<<<500, 500>>>>),
                       Artist("title", "Predicted vs. Actual", << >>)>>
    /\ s.residuals_plot = <<Artist("text", label, <<<<500, 500>>>>),
                            Artist("title", "Residuals", << >>)>>
    /\ s.metrics_text = << >>

\* no handler has run since construction
AtStartup == calls = <<"clear_plots">>

\* the calls that compute metrics or render
RenderCalls ==
    {"plot_data", "clear_plots", "mean_absolute_error", "mean_squared_error",
     "r2_score", "setHtml", "draw"}

MissingColumnsStatus ==
    Status("Error: CSV must contain 'Actual' and 'Predicted' columns.", TRUE, << >>)

\* a further click on the load button runs the handler to its end, and on
\* a valid file it loads
CanLoad == \E dlg \in ValidDialogs : load_csv(Self, dlg).data # None

\* (C1) Whenever Dataset is absent, both chart panes are in the placeholder
\* state and the metrics text is empty.
C1_AbsentShowsPlaceholder ==
    data = None =>
        /\ IsPlaceholder(pv_a_plot)
        /\ IsPlaceholder(residuals_plot)
        /\ metrics_text = << >>

\* (C2) The run starts EMPTY; a step whose load is valid ends LOADED; a step
\* whose load cannot be parsed or lacks a column ends EMPTY; LOADED is entered
\* or kept by no other step than a valid load or a cancel in LOADED; and a
\* further load is possible in every state.
C2_StateMachine ==
    /\ data = None
    /\ [][/\ Valid(dialog') => data' # None
          /\ (Unparsable(dialog') \/ SchemaInvalid(dialog')) => data' = None
          /\ data' # None => Valid(dialog') \/ (Cancelled(dialog') /\ data # None)]_vars
    /\ []CanLoad

\* a failed validation took the window from LOADED to EMPTY
C2_Witness ==
    /\ SchemaInvalid(dialog)
    /\ data = None
    /\ HasKind(pv_a_plot, "scatter")

\* (C3) After a load of a parsed CSV lacking 'Actual' or 'Predicted' (exact
\* names), Dataset is absent, the status is the fixed red missing-columns
\* message, and the handler made no metric or rendering call.
C3_SchemaInvalid ==
    SchemaInvalid(dialog) =>
        /\ data = None
        /\ info_label = MissingColumnsStatus
        /\ \A i \in 1..Len(calls) : calls[i] \notin RenderCalls

\* a file with lower-case column names was rejected while charts were shown
C3_Witness ==
    /\ SchemaInvalid(dialog)
    /\ dialog.disk.header = <<"actual", "predicted">>
    /\ HasKind(residuals_plot, "scatter")
    /\ info_label = MissingColumnsStatus

\* (C4) After a load of a path that cannot be read or parsed, Dataset is
\* absent, the status is the red error message carrying the failure's
\* message, and a further load is possible.
C4_ParseFailure ==
    Unparsable(dialog) =>
        /\ data = None
        /\ info_label = Status("Error loading CSV: ", TRUE, read_csv(dialog.disk).exc)
        /\ info_label.arg # << >>
        /\ CanLoad

\* a missing file was chosen while a dataset was loaded
C4_Witness ==
    /\ Unparsable(dialog)
    /\ dialog.disk.err = "FileNotFoundError: No such file or directory"
    /\ HasKind(pv_a_plot, "scatter")
    /\ data = None

\* (C5) A cancelled dialog leaves Dataset, the status line, both chart panes
\* and the metrics text as they were.
C5_CancelChangesNothing == [][Cancelled(dialog') => UNCHANGED pvars]_vars

\* the dialog was cancelled with a dataset loaded
C5_Witness ==
    /\ Cancelled(dialog)
    /\ calls = <<"getOpenFileName">>
    /\ data # None
    /\ info_label.kind = "Loaded: "

\* (C6) After a load of a valid file the status shows the file's base name,
\* Dataset is the table parsed from it, and metrics and both charts hold
\* exactly what is computed from that table, nothing of an earlier one.
C6_ValidLoadReplaces ==
    Valid(dialog) =>
        /\ info_label = Status("Loaded: ", FALSE, dialog.base)
        /\ data = read_csv(dialog.disk).df
        /\ LET a == IntsOf(ColumnValues(data[1], "Actual"))
               p == IntsOf(ColumnValues(data[1], "Predicted"))
               res == [i \in 1..Len(a) |-> p[i] - a[i]]
           IN /\ metrics_text = <<[mae |-> Format3(mean_absolute_error(a, p)),
                                   mse |-> Format3(mean_squared_error(a, p)),
                                   r2 |-> Format3(r2_score(a, p))]>>
              /\ pv_a_plot = PvAFigure(<< >>, a, p)
              /\ residuals_plot = ResidualsFigure(<< >>, a, res)
              /\ Cardinality({i \in 1..Len(pv_a_plot) :
                                  pv_a_plot[i].kind \in {"scatter", "line"}}) = 2
              /\ Cardinality({i \in 1..Len(residuals_plot) :
                                  residuals_plot[i].kind \in {"scatter", "axhline"}}) = 2
              /\ \A i \in 1..Len(pv_a_plot) :
                     pv_a_plot[i].kind = "scatter" =>
                         pv_a_plot[i].pts = [k \in 1..Len(a) |-> <<a[k], p[k]>>]
              /\ \A i \in 1..Len(residuals_plot) :
                     residuals_plot[i].kind = "scatter" =>
                         residuals_plot[i].pts = [k \in 1..Len(a) |-> <<a[k], p[k] - a[k]>>]

\* a valid file in a subdirectory was loaded with columns in another order
C6_Witness ==
    /\ Valid(dialog)
    /\ dialog.file_name = <<"/", "d", "/", "b">>
    /\ info_label.arg = <<"b">>
    /\ dialog.disk.header = <<"Predicted", "Extra", "Actual">>
    /\ HasKind(pv_a_plot, "scatter")

\* (C7) Between events Dataset is absent or a table with both the 'Actual'
\* and the 'Predicted' column, of equal length.
C7_DatasetWellFormed ==
    data # None =>
        /\ InColumns("Actual", data[1])
        /\ InColumns("Predicted", data[1])
        /\ Len(ColumnValues(data[1], "Actual").values)
               = Len(ColumnValues(data[1], "Predicted").values)

\* a table parsed without the Predicted column was not kept
C7_Witness ==
    /\ dialog.disk.header = <<"Actual">>
    /\ Parsed(dialog)
    /\ data = None
    /\ "read_csv" \in {calls[i] : i \in 1..Len(calls)}

\* (C8, as stated) At startup Dataset is absent and the display is the
\* placeholder display with the label "Load a dataset to generate plot",
\* and clear_plots yields that display from every state.
C8_AsStated ==
    /\ AtStartup => data = None /\ PlaceholderDisplay("Load a dataset to generate plot", Self)
    /\ PlaceholderDisplay("Load a dataset to generate plot", clear_plots(Self))

\* (C8, amended) At startup Dataset is absent and the display is the
\* placeholder display with the label "Load a CSV to generate plot", and
\* clear_plots yields that display from every state.
C8_Placeholder ==
    /\ AtStartup => data = None /\ PlaceholderDisplay("Load a CSV to generate plot", Self)
    /\ PlaceholderDisplay("Load a CSV to generate plot", clear_plots(Self))

\* charts and metrics of a dataset are shown, and clear_plots would replace them
C8_Witness ==
    /\ HasKind(pv_a_plot, "scatter")
    /\ HasKind(residuals_plot, "axhline")
    /\ metrics_text # << >>
    /\ PlaceholderDisplay("Load a CSV to generate plot", clear_plots(Self))

\* (C9) For a table of N >= 1 rows MAE is the mean of |predicted - actual|
\* and MSE the mean of its square, both >= 0; when predicted = actual in
\* every row both are 0, and R2 = 1 if the actual values are not all equal.
C9_Metrics ==
    plot_locals # << >> =>
        LET l == plot_locals[1]
            a == IntsOf(ColumnValues(data[1], "Actual"))
            p == IntsOf(ColumnValues(data[1], "Predicted"))
            N == Len(a)
            perfect == \A i \in 1..N : p[i] = a[i]
            varied == \E i, j \in 1..N : a[i] # a[j]
        IN /\ N >= 1 /\ l.actual = a /\ l.predicted = p
           /\ l.mae.den > 0 /\ l.mse.den > 0
           /\ l.mae.num * N = l.mae.den * SumSeq([i \in 1..N |-> Abs(p[i] - a[i])])
           /\ l.mse.num * N
                  = l.mse.den * SumSeq([i \in 1..N |-> (p[i] - a[i]) * (p[i] - a[i])])
           /\ l.mae.num >= 0 /\ l.mse.num >= 0
           /\ perfect => l.mae.num = 0 /\ l.mse.num = 0
           /\ perfect /\ varied => l.r2.den > 0 /\ l.r2.num = l.r2.den

\* a perfect fit over varied actual values was scored
C9_Witness ==
    /\ plot_locals # << >>
    /\ plot_locals[1].actual = plot_locals[1].predicted
    /\ \E i, j \in 1..Len(plot_locals[1].actual) :
           plot_locals[1].actual[i] # plot_locals[1].actual[j]
    /\ plot_locals[1].r2 = Rat(1, 1)

\* (C10) A validated file that cannot be scored ends as a load failure:
\* red error status, Dataset absent.  The status shows 'Loaded: <name>' only
\* while Dataset is the table parsed from the file of that name, and
\* Dataset is absent whenever the status is an error.
C10_StatusAgreesWithDataset ==
    /\ Unplottable(dialog) =>
           /\ data = None
           /\ info_label.kind = "Error loading CSV: "
           /\ info_label.red
           /\ info_label.arg # << >>
    /\ info_label.kind = "Loaded: " =>
           /\ data # None
           /\ status_file # << >>
           /\ info_label.arg = status_file[1].base
           /\ data = read_csv(status_file[1].disk).df
    /\ info_label.red => data = None

\* a file with a non-numeric Predicted cell was chosen after a good load
C10_Witness ==
    /\ Unplottable(dialog)
    /\ Len(dialog.disk.rows) > 0
    /\ HasKind(pv_a_plot, "scatter")
    /\ info_label.arg = <<"TypeError: unsupported operand type(s) for -">>
    /\ data = None
====
